---- MODULE Spec2Model ----
(***************************************************************************)
(* Model of src/xhsBrowser.py: the scroll pacer (AutoScrollController),    *)
(* the page-to-core notification object (WebComm) and the capture loop of  *)
(* BrowserTab (capture_data, parse_html, _extract_note_info,               *)
(* _parse_like_count).                                                     *)
(*                                                                         *)
(* Texts (URLs, inline styles, like-count texts) are sequences of tokens;  *)
(* a token is a run of characters that holds none of the characters the    *)
(* code splits or searches on.  Python's None-or-element results of        *)
(* select_one are sequences of length 0 (None) or 1 (the element).         *)
(* Times are in milliseconds.                                              *)
(***************************************************************************)
EXTENDS Integers, Sequences, FiniteSets, TLC

VARIABLES
    active,           \* AutoScrollController.active
    connections,      \* number of timeout -> _scroll_step connections of the timer
    timer,            \* ms until the QTimer's next timeout; Stopped when not running
    retries,          \* QTimer.singleShot(1500, _scroll_step) timers: ms left of each
    probes,           \* runJavaScript probes in flight: [age, byRetry] of each
    snapshots,        \* toHtml requests whose callback has not run yet
    collected_notes,  \* BrowserTab.collected_notes
    sink,             \* payloads of dataCaptured.emit, in order
    last              \* the handler that ran last, what it was given, what escaped it

vars == <<active, connections, timer, retries, probes, snapshots,
          collected_notes, sink, last>>

pacerVars == <<active, connections, timer, retries, probes>>

-----------------------------------------------------------------------------
(* Bounds of the model *)

MaxFragments == 2      \* section.note-item elements in one markup snapshot
MaxProbes == 2         \* probes in flight at once
MaxRetries == 2        \* single-shot retry timers pending at once
MaxSnapshots == 2      \* toHtml callbacks pending at once
MaxConnections == 2    \* start() calls that connected the timer

(* Program constants *)

TimerInterval == 3000
RetryDelay == 1500
SettleDelay == 1000

-----------------------------------------------------------------------------
(* Generic helpers on token sequences *)

Range(s) == {s[i] : i \in 1..Len(s)}

\* Python: needle in hay (substring test)
Contains(hay, needle) ==
    \E i \in 0..(Len(hay) - Len(needle)) :
        \A j \in 1..Len(needle) : hay[i + j] = needle[j]

\* Python: s.split(sep)[0]
SplitFirst(s, sep) ==
    IF sep \in Range(s)
    THEN LET i == CHOOSE k \in 1..Len(s) :
                      s[k] = sep /\ \A m \in 1..(k - 1) : s[m] # sep
         IN SubSeq(s, 1, i - 1)
    ELSE s

\* Python: s.split(sep)[-1]
SplitLast(s, sep) ==
    IF sep \in Range(s)
    THEN LET i == CHOOSE k \in 1..Len(s) :
                      s[k] = sep /\ \A m \in (k + 1)..Len(s) : s[m] # sep
         IN SubSeq(s, i + 1, Len(s))
    ELSE s

\* Python: s.replace(tok, '')
RECURSIVE Remove(_, _)
Remove(s, tok) ==
    IF s = <<>> THEN <<>>
    ELSE IF Head(s) = tok THEN Remove(Tail(s), tok)
    ELSE <<Head(s)>> \o Remove(Tail(s), tok)

\* Python: s.strip()
RECURSIVE LStrip(_)
LStrip(s) == IF s # <<>> /\ Head(s) = " " THEN LStrip(Tail(s)) ELSE s

RECURSIVE RStrip(_)
RStrip(s) ==
    IF s # <<>> /\ s[Len(s)] = " " THEN RStrip(SubSeq(s, 1, Len(s) - 1)) ELSE s

Strip(s) == RStrip(LStrip(s))

RECURSIVE Pow10(_)
Pow10(n) == IF n = 0 THEN 1 ELSE 10 * Pow10(n - 1)

-----------------------------------------------------------------------------
(* The like-count normalizer: BrowserTab._parse_like_count *)

Digits == {"0", "1", "2", "3", "4", "5", "6", "7", "8", "9"}

DigitVal(c) ==
    CASE c = "0" -> 0 [] c = "1" -> 1 [] c = "2" -> 2 [] c = "3" -> 3
      [] c = "4" -> 4 [] c = "5" -> 5 [] c = "6" -> 6 [] c = "7" -> 7
      [] c = "8" -> 8 [] c = "9" -> 9

RECURSIVE DigitsVal(_)
DigitsVal(s) ==
    IF s = <<>> THEN 0 ELSE DigitsVal(SubSeq(s, 1, Len(s) - 1)) * 10 + DigitVal(s[Len(s)])

\* Python float(text) on a decimal numeral, [sign] digits [. digits] with at
\* least one digit, or on [sign] inf, between optional blanks.  The result is
\* [ok, neg, inf, mant, scale]: ok = FALSE stands for ValueError; the value is
\* infinite when inf, and mant / 10^scale otherwise, negated when neg.
Decimal(neg, intPart, fracPart) ==
    IF /\ Range(intPart) \subseteq Digits
       /\ Range(fracPart) \subseteq Digits
       /\ Len(intPart) + Len(fracPart) > 0
    THEN [ok |-> TRUE, neg |-> neg, inf |-> FALSE,
          mant |-> DigitsVal(intPart \o fracPart), scale |-> Len(fracPart)]
    ELSE [ok |-> FALSE, neg |-> FALSE, inf |-> FALSE, mant |-> 0, scale |-> 0]

AfterDot(body) ==
    IF "." \in Range(body) THEN SubSeq(body, Len(SplitFirst(body, ".")) + 2, Len(body))
    ELSE <<>>

Unsigned(neg, body) ==
    IF body = <<"inf">>
    THEN [ok |-> TRUE, neg |-> neg, inf |-> TRUE, mant |-> 0, scale |-> 0]
    ELSE Decimal(neg, SplitFirst(body, "."), AfterDot(body))

Signed(text) ==
    IF text # <<>> /\ Head(text) \in {"-", "+"}
    THEN Unsigned(Head(text) = "-", Tail(text))
    ELSE Unsigned(FALSE, text)

ParseFloat(text) == Signed(Strip(text))

\* float(numeral) * mult in IEEE double arithmetic: the numerals <<mant, scale>>
\* of at most five characters over the digits 0, 1, 2 whose product with mult,
\* an integer when computed exactly, comes out just below that integer
\* (float('2.01') * 10000 = 20099.999999999996)
DoubleFallsShort ==
    { <<12, 4, 10000>>, <<102, 3, 10000>>, <<201, 2, 1000>>, <<201, 2, 10000>>,
      <<1001, 3, 1000>>, <<1001, 3, 10000>>, <<1011, 3, 1000>>, <<1011, 3, 10000>>,
      <<1012, 2, 10000>>, <<1020, 4, 10000>>, <<1021, 3, 1000>>, <<1021, 3, 10000>>,
      <<1112, 2, 10000>>, <<1212, 2, 10000>>, <<2002, 3, 1000>>, <<2002, 3, 10000>>,
      <<2010, 3, 1000>>, <<2010, 3, 10000>>, <<2022, 3, 1000>>, <<2022, 3, 10000>> }

\* int(abs(f) * mult): the integer part of the double product
Magnitude(f, mult) ==
    IF <<f.mant, f.scale, mult>> \in DoubleFallsShort
    THEN ((f.mant * mult) \div Pow10(f.scale)) - 1
    ELSE (f.mant * mult) \div Pow10(f.scale)

\* int(f * mult), as [raised, value]: truncation toward zero; the except
\* clause gives 0 on the ValueError of float(); int() of an infinite product
\* raises OverflowError, which the except clause does not catch
Truncated(f, mult) ==
    IF ~f.ok THEN [raised |-> "", value |-> 0]
    ELSE IF f.inf THEN [raised |-> "OverflowError", value |-> 0]
    ELSE IF f.neg THEN [raised |-> "", value |-> 0 - Magnitude(f, mult)]
    ELSE [raised |-> "", value |-> Magnitude(f, mult)]

ScaledInt(numeral, mult) == Truncated(ParseFloat(numeral), mult)

\* lines 444-453, on the text line 442 leaves.  "wan" is the character for ten
\* thousand, "qian" the one for a thousand
LikeCount(text) ==
    IF "wan" \in Range(text) THEN ScaledInt(Remove(text, "wan"), 10000)
    ELSE IF "qian" \in Range(text) THEN ScaledInt(Remove(text, "qian"), 1000)
    ELSE ScaledInt(text, 1)

\* the result is [raised, value]: the exception that leaves the method ("" when
\* none does) and the count it returns
_parse_like_count(text) == LikeCount(Strip(Remove(text, "+")))

-----------------------------------------------------------------------------
(* URLs and ids: parse_html lines 370-376 *)

base_url == <<"https:", "/", "/", "www.xiaohongshu.com">>

\* urllib.parse.urljoin(base_url, href), base_url being an origin without path
urljoin(base, href) ==
    IF href = <<>> THEN base
    ELSE IF Head(href) = "https:" THEN href
    ELSE IF Head(href) \in {"/", "?"} THEN base \o href
    ELSE base \o <<"/">> \o href

\* full_url.split('?')[0].split('/')[-1]
NoteCoreId(full_url) == SplitLast(SplitFirst(full_url, "?"), "/")

\* hashlib.md5(core.encode()).hexdigest()[:8], on the core ids of the model
Md5Hex8(core) ==
    CASE core = <<"abc123">> -> "e99a18c4"
      [] core = <<"def456">> -> "f26c2f43"
      [] core = <<>> -> "d41d8cd9"
      [] core = <<"www.xiaohongshu.com">> -> "2f7f0bb7"
      [] OTHER -> "00000000"

NoteId(full_url) == Md5Hex8(NoteCoreId(full_url))

\* item.select_one('a.cover.mask[href*="xsec_token="]'): the cover anchor, when
\* its href holds the text xsec_token=
NoteLink(item) ==
    IF item.link # <<>> /\ Contains(item.link[1], <<"xsec_token=">>)
    THEN item.link ELSE <<>>

\* line 366: the two spellings of a hidden inline style the code looks for
StyleSkipped(style) ==
    \/ Contains(style, <<"display", ":", " ", "none">>)
    \/ Contains(style, <<"visibility", ":", " ", "hidden">>)

-----------------------------------------------------------------------------
(* BrowserTab._extract_note_info.  The result is [raised, value]: raised names
   the exception that left the method ("" when none did) and value holds the
   record.  The record's timestamp, int(time.time()), is left out: nothing
   reads it. *)

NoRecord == <<>>

_extract_note_info(item, note_id, full_url) ==
    LET author_tag == item.author
        nameRaises == author_tag # <<>> /\ author_tag[1].name = <<>>
        author_url == IF author_tag # <<>> THEN urljoin(base_url, author_tag[1].href)
                      ELSE <<>>
        author_name == IF author_tag # <<>> /\ ~nameRaises THEN author_tag[1].name[1]
                       ELSE ""
        countRaises == item.like # <<>> /\ item.like[1] = <<>>
        like_text == IF item.like # <<>> /\ ~countRaises THEN item.like[1][1]
                     ELSE <<"0">>
        likes == _parse_like_count(like_text)
        cover_img == item.cover
        srcRaises == cover_img # <<>> /\ cover_img[1] = <<>>
        cover_url == IF cover_img # <<>> /\ ~srcRaises THEN cover_img[1][1] ELSE ""
    IN IF nameRaises \/ countRaises THEN [raised |-> "AttributeError", value |-> NoRecord]
       ELSE IF likes.raised # "" THEN [raised |-> likes.raised, value |-> NoRecord]
       ELSE IF srcRaises THEN [raised |-> "KeyError", value |-> NoRecord]
       ELSE [raised |-> "",
             value |-> <<[id |-> note_id,
                          title |-> IF item.title # <<>> THEN item.title[1] ELSE "",
                          url |-> full_url,
                          author |-> author_name,
                          author_link |-> author_url,
                          likes |-> likes.value,
                          cover |-> cover_url,
                          images |-> IF cover_url # "" THEN <<cover_url>> ELSE <<>>]>>]

-----------------------------------------------------------------------------
(* BrowserTab.parse_html, the loop over soup.select('section.note-item'):
   one step of it per item.  The loop state is the dedup index, the notes of
   this pass and, for each item so far, the way it left the loop body. *)

\* the pass keeps, for every item, the way the item left the loop body
Fared(st, why, url) == [st EXCEPT !.how = Append(@, [why |-> why, url |-> url])]

\* lines 383-386: the record is registered and joins the batch; an exception
\* of _extract_note_info is caught at line 388 and the item is passed over
Collect(st, note_id, full_url, got) ==
    IF got.raised # "" THEN Fared(st, "failed", full_url)
    ELSE [collected |-> st.collected \cup {note_id},
          notes |-> st.notes \o got.value,
          how |-> Append(st.how, [why |-> "new", url |-> full_url])]

Dedup_NoIndexCheck(st, item, note_id, full_url) ==
    Collect(st, note_id, full_url, _extract_note_info(item, note_id, full_url))

\* lines 378-382: an id of the dedup index is passed over
Dedup(st, item, note_id, full_url) ==
    IF note_id \in st.collected THEN Fared(st, "seen", full_url)
    ELSE Collect(st, note_id, full_url, _extract_note_info(item, note_id, full_url))

\* lines 374-376
Identify(st, item, full_url) == Dedup(st, item, NoteId(full_url), full_url)

\* lines 364-372: hidden items and items without the post link are passed over
ItemStep(st, item) ==
    IF StyleSkipped(item.style) THEN Fared(st, "hidden", <<>>)
    ELSE IF NoteLink(item) = <<>> THEN Fared(st, "nolink", <<>>)
    ELSE Identify(st, item, urljoin(base_url, NoteLink(item)[1]))

\* the pass on a parsed page: what it leaves in the dedup index, the batch and
\* how each item fared
ParsePage(items, collected) ==
    LET after[k \in 0..Len(items)] ==
            IF k = 0 THEN [collected |-> collected, notes |-> <<>>, how |-> <<>>]
            ELSE ItemStep(after[k - 1], items[k])
    IN after[Len(items)]

parse_html_AlwaysEmits(html, collected, emitted) ==
    LET st == ParsePage(html.items, collected)
    IN IF ~html.parses
       THEN [collected |-> collected, emitted |-> emitted,
             how |-> <<>>, raised |-> "AttributeError"]
       ELSE [collected |-> st.collected, emitted |-> Append(emitted, st.notes),
             how |-> st.how, raised |-> ""]

\* BeautifulSoup(html, 'html.parser') either throws or gives the items of the page
parse_html(html, collected, emitted) ==
    LET st == ParsePage(html.items, collected)
    IN IF ~html.parses
       \* line 399: self.handle_html_error is defined nowhere, so the handler of
       \* the parse failure raises AttributeError itself
       THEN [collected |-> collected, emitted |-> emitted,
             how |-> <<>>, raised |-> "AttributeError"]
       ELSE [collected |-> st.collected,
             emitted |-> IF st.notes # <<>> THEN Append(emitted, st.notes) ELSE emitted,
             how |-> st.how, raised |-> ""]

-----------------------------------------------------------------------------
(* The inputs: post fragments, pages, page reports *)

Frag(style, link, title, author, like, cover) ==
    [style |-> style, link |-> link, title |-> title, author |-> author,
     like |-> like, cover |-> cover]

HrefAbcX == <<"/", "explore", "/", "abc123", "?", "xsec_token=", "X">>
HrefAbcY == <<"/", "explore", "/", "abc123", "?", "xsec_token=", "Y", "&", "xsec_source=", "pc_feed">>
HrefDefY == <<"/", "explore", "/", "def456", "?", "xsec_token=", "Y">>
HrefNoToken == <<"/", "explore", "/", "abc123">>

NoStyle == <<>>
DisplayNone == <<"display", ":", " ", "none">>
VisibilityHidden == <<"color", ":", " ", "red", ";", " ", "visibility", ":", " ", "hidden">>
DisplayNoneTight == <<"display", ":", "none">>
VisibilityHiddenTight == <<"visibility", ":", "hidden", ";">>

Author(name) == [href |-> <<"/", "user", "/", "profile", "/", "u1">>, name |-> name]

FullAuthor == <<Author(<<"Ann">>)>>
FullLike == <<<< <<"1", ".", "2", "wan", "+">> >>>>
FullCover == <<<<"c.jpg">>>>

\* the fragments the pages of the capture loop are made of
CoreFragments ==
    { Frag(NoStyle, <<HrefAbcX>>, <<"T1">>, FullAuthor, FullLike, FullCover),
      Frag(NoStyle, <<HrefAbcY>>, <<"T2">>, <<>>, <<>>, <<>>),
      Frag(NoStyle, <<HrefDefY>>, <<"T1">>, FullAuthor, FullLike, FullCover),
      Frag(DisplayNone, <<HrefDefY>>, <<"T1">>, FullAuthor, FullLike, FullCover),
      Frag(NoStyle, <<HrefNoToken>>, <<"T1">>, FullAuthor, FullLike, FullCover),
      Frag(NoStyle, <<HrefDefY>>, <<"T1">>, <<Author(<<>>)>>, FullLike, FullCover) }

RECURSIVE SeqsUpTo(_, _)
SeqsUpTo(S, n) ==
    IF n = 0 THEN {<<>>}
    ELSE LET shorter == SeqsUpTo(S, n - 1)
         IN shorter \cup {Append(q, x) : q \in shorter, x \in S}

Unparseable == [parses |-> FALSE, items |-> <<>>]

Page(items) == [parses |-> TRUE, items |-> items]

Pages == {Page(q) : q \in SeqsUpTo(CoreFragments, MaxFragments)} \cup {Unparseable}

\* the pages the paced loop is run on
PacerPages ==
    {Unparseable, Page(<<>>),
     Page(<<Frag(NoStyle, <<HrefAbcX>>, <<"T1">>, FullAuthor, FullLike, FullCover)>>)}

\* the values runJavaScript hands to _handle_scroll: a dict with its keys, or None
Report(loading) ==
    [type |-> "dict", keys |-> {"height", "item_count", "loading"}, loading |-> loading]
EmptyReport == [type |-> "dict", keys |-> {}, loading |-> FALSE]
NullReport == [type |-> "NoneType", keys |-> {}, loading |-> FALSE]

Reports == {Report(TRUE), Report(FALSE), EmptyReport, NullReport}

ReportKind(result) ==
    IF result.type # "dict" THEN "null"
    ELSE IF result.keys = {} THEN "empty"
    ELSE IF result.loading THEN "loading" ELSE "settled"

-----------------------------------------------------------------------------
(* State *)

Did(op, report, how, raised) ==
    [op |-> op, report |-> report, how |-> how, raised |-> raised]

Init ==
    /\ active = FALSE
    /\ connections = 0
    /\ timer = <<>>
    /\ retries = <<>>
    /\ probes = <<>>
    /\ snapshots = 0
    /\ collected_notes = {}
    /\ sink = <<>>
    /\ last = Did("__init__", "", <<>>, "")

-----------------------------------------------------------------------------
(* AutoScrollController *)

\* start(): the state of the controller after it, as <<active, connections, timer>>
start ==
    IF ~active THEN <<TRUE, connections + 1, <<TimerInterval>> >>
    ELSE <<active, connections, timer>>

\* stop(): the state of the controller after it, as <<active, timer>>
stop ==
    IF active THEN <<FALSE, <<>> >> ELSE <<active, timer>>

\* _scroll_step, run n times: n probes handed to the page
_scroll_step(n, byRetry) ==
    probes \o [i \in 1..n |-> [age |-> 0, byRetry |-> byRetry]]

\* capture_data(): one more toHtml request whose callback is pending
capture_data == snapshots + 1

_handle_scroll_NoRetry(result) ==
    IF result.type = "dict"
    THEN [snapshots |-> capture_data, retries |-> retries, raised |-> ""]
    ELSE [snapshots |-> capture_data, retries |-> retries, raised |-> "AttributeError"]

\* _handle_scroll(result): the pending snapshots and the retry timers after
\* it, and the exception that leaves it
_handle_scroll(result) ==
    IF result.type = "dict" /\ result.keys = {}
    THEN [snapshots |-> capture_data, retries |-> retries, raised |-> ""]
    ELSE IF result.type # "dict"
    THEN [snapshots |-> capture_data, retries |-> retries, raised |-> "AttributeError"]
    ELSE IF "loading" \in result.keys /\ result.loading
    THEN [snapshots |-> capture_data, retries |-> Append(retries, RetryDelay),
          raised |-> ""]
    ELSE [snapshots |-> capture_data, retries |-> retries, raised |-> ""]

Start ==
    /\ active \/ connections < MaxConnections
    /\ active' = start[1]
    /\ connections' = start[2]
    /\ timer' = start[3]
    /\ last' = Did("start", "", <<>>, "")
    /\ UNCHANGED <<retries, probes, snapshots, collected_notes, sink>>

Stop ==
    /\ active' = stop[1]
    /\ timer' = stop[2]
    /\ last' = Did("stop", "", <<>>, "")
    /\ UNCHANGED <<connections, retries, probes, snapshots, collected_notes, sink>>

\* the timer's timeout signal: every connected _scroll_step runs
Tick ==
    /\ timer = <<0>>
    /\ Len(probes) + connections <= MaxProbes
    /\ probes' = _scroll_step(connections, FALSE)
    /\ timer' = <<TimerInterval>>
    /\ last' = Did("tick", "", <<>>, "")
    /\ UNCHANGED <<active, connections, retries, snapshots, collected_notes, sink>>

\* a single-shot retry timer fires: _scroll_step runs once
RetryFire ==
    /\ retries # <<>>
    /\ Head(retries) = 0
    /\ Len(probes) < MaxProbes
    /\ probes' = _scroll_step(1, TRUE)
    /\ retries' = Tail(retries)
    /\ last' = Did("retry", "", <<>>, "")
    /\ UNCHANGED <<active, connections, timer, snapshots, collected_notes, sink>>

\* the page reports back on probe i, at least SettleDelay after it was issued
ProbeReport(i, result) ==
    /\ probes[i].age >= SettleDelay
    /\ snapshots < MaxSnapshots
    /\ ReportKind(result) = "loading" => Len(retries) < MaxRetries
    /\ probes' = SubSeq(probes, 1, i - 1) \o SubSeq(probes, i + 1, Len(probes))
    /\ snapshots' = _handle_scroll(result).snapshots
    /\ retries' = _handle_scroll(result).retries
    /\ last' = Did("_handle_scroll", ReportKind(result), <<>>, _handle_scroll(result).raised)
    /\ UNCHANGED <<active, connections, timer, collected_notes, sink>>

-----------------------------------------------------------------------------
(* BrowserTab and WebComm *)

\* handle_content_loaded(True) -> start_data_collection(): start() and capture_data()
StartDataCollection ==
    /\ active \/ connections < MaxConnections
    /\ snapshots < MaxSnapshots
    /\ active' = start[1]
    /\ connections' = start[2]
    /\ timer' = start[3]
    /\ snapshots' = capture_data
    /\ last' = Did("start_data_collection", "", <<>>, "")
    /\ UNCHANGED <<retries, probes, collected_notes, sink>>

\* toggle_monitoring(): _stop_monitoring() when active; _start_monitoring() when
\* not, which only loads the page (start_data_collection follows the load)
ToggleMonitoring ==
    /\ active' = IF active THEN stop[1] ELSE active
    /\ timer' = IF active THEN stop[2] ELSE timer
    /\ last' = Did("toggle_monitoring", "", <<>>, "")
    /\ UNCHANGED <<connections, retries, probes, snapshots, collected_notes, sink>>

\* the toHtml callback of capture_data: parse_html(html)
DeliverSnapshot(html) ==
    /\ snapshots > 0
    /\ snapshots' = snapshots - 1
    /\ LET r == parse_html(html, collected_notes, sink)
       IN /\ collected_notes' = r.collected
          /\ sink' = r.emitted
          /\ last' = Did("parse_html", "", r.how, r.raised)
    /\ UNCHANGED pacerVars

\* what self.callback() of WebComm passes (line 157), and what parse_html, the
\* callback (line 195), takes beside self (line 357)
CallbackArgs == 0
ParseHtmlParams == 1

\* WebComm.capture_trigger(): self.callback(), then contentCaptured.emit, whose
\* slot handle_new_content calls capture_data()
capture_trigger ==
    IF CallbackArgs # ParseHtmlParams
    THEN [snapshots |-> snapshots, raised |-> "TypeError"]
    ELSE [snapshots |-> capture_data, raised |-> ""]

\* the page's new-content notification
CaptureTrigger ==
    /\ capture_trigger.snapshots <= MaxSnapshots
    /\ snapshots' = capture_trigger.snapshots
    /\ last' = Did("capture_trigger", "", <<>>, capture_trigger.raised)
    /\ UNCHANGED <<pacerVars, collected_notes, sink>>

-----------------------------------------------------------------------------
(* Time *)

Granule == RetryDelay - SettleDelay

TickDue == timer = <<0>> /\ Len(probes) + connections <= MaxProbes
RetryDue == retries # <<>> /\ Head(retries) = 0 /\ Len(probes) < MaxProbes

\* the waits still running: of the timer, of the retries, of the page's settle delay
Waits ==
    {timer[i] : i \in DOMAIN timer}
        \cup {retries[i] : i \in DOMAIN retries}
        \cup {SettleDelay - probes[i].age : i \in DOMAIN probes}

\* time passes in steps of the granule, at most the timer's interval at once
Durations == {k * Granule : k \in 1..(TimerInterval \div Granule)}

Less(t, d) == IF t > d THEN t - d ELSE 0

\* d ms pass; no timer that is due is passed over
Elapse(d) ==
    /\ ~TickDue /\ ~RetryDue
    /\ \E w \in Waits : w > 0
    /\ \A w \in Waits : w > 0 => d <= w
    /\ timer' = [i \in DOMAIN timer |-> Less(timer[i], d)]
    /\ retries' = [i \in DOMAIN retries |-> Less(retries[i], d)]
    /\ probes' = [i \in DOMAIN probes |->
                    [probes[i] EXCEPT !.age = SettleDelay - Less(SettleDelay - @, d)]]
    /\ last' = Did("elapse", "", <<>>, "")
    /\ UNCHANGED <<active, connections, snapshots, collected_notes, sink>>

-----------------------------------------------------------------------------
(* The program *)

Next ==
    \/ Start
    \/ Stop
    \/ StartDataCollection
    \/ ToggleMonitoring
    \/ Tick
    \/ RetryFire
    \/ \E i \in DOMAIN probes, result \in Reports : ProbeReport(i, result)
    \/ \E html \in PacerPages : DeliverSnapshot(html)
    \/ CaptureTrigger
    \/ \E d \in Durations : Elapse(d)

Spec == Init /\ [][Next]_vars

-----------------------------------------------------------------------------
(* The capture loop on pages of several fragments: the captures that page
   loads start, and their snapshot callbacks in any order *)

NextCapture ==
    \/ StartDataCollection
    \/ \E html \in Pages : DeliverSnapshot(html)
    \/ CaptureTrigger

SpecCapture == Init /\ [][NextCapture]_vars

-----------------------------------------------------------------------------
(* The extractor on its own: single fragments of every shape, one pass each,
   against the dedup index the passes before left *)

Styles == {NoStyle, DisplayNone, VisibilityHidden, DisplayNoneTight, VisibilityHiddenTight}
Links == {<<>>, <<HrefAbcX>>, <<HrefDefY>>, <<HrefNoToken>>}
Titles == {<<>>, <<"T1">>}
Authors == {<<>>, <<Author(<<>>)>>, FullAuthor}
Likes == {<<>>, <<<<>>>>, FullLike}
Covers == {<<>>, <<<<>>>>, FullCover}

AllFragments ==
    {Frag(s, l, t, a, k, c) : s \in Styles, l \in Links, t \in Titles,
                              a \in Authors, k \in Likes, c \in Covers}

ExtractPass(item) ==
    /\ LET r == parse_html([parses |-> TRUE, items |-> <<item>>], collected_notes, sink)
       IN /\ collected_notes' = r.collected
          /\ sink' = r.emitted
          /\ last' = Did("parse_html", "", r.how, r.raised)
    /\ UNCHANGED <<pacerVars, snapshots>>

NextExtract == \E item \in AllFragments : ExtractPass(item)

SpecExtract == Init /\ [][NextExtract]_vars

-----------------------------------------------------------------------------
(* The like-count normalizer on the texts a page can show in .like-wrapper
   .count: every text of up to MaxLikeText characters over LikeChars.  The
   text is drawn when the page renders it; then either the normalizer alone
   is applied to it, or the first capture pass of the session meets a whole
   fragment that carries it. *)

MaxLikeText == 5

\* "x" is a character that is no digit, sign, point, blank or multiplier
LikeChars == {"0", "1", "2", ".", "-", "+", " ", "wan", "qian", "x", "inf"}

\* the texts of up to n characters
LikeTexts(n) == SeqsUpTo(LikeChars, n)

LikeFragment(text) ==
    Frag(NoStyle, <<HrefAbcX>>, <<"T1">>, FullAuthor, << <<text>> >>, FullCover)

InitLikes ==
    /\ active = FALSE
    /\ connections = 0
    /\ timer = <<>>
    /\ retries = <<>>
    /\ probes = <<>>
    /\ snapshots = 0
    /\ collected_notes = {}
    /\ sink = <<>>
    /\ \E text \in LikeTexts(MaxLikeText) : last = Did("page", "", text, "")

\* self._parse_like_count(like_text), line 418, on the text the page shows
ParseLikeCount ==
    /\ last.op = "page"
    /\ last' = Did("_parse_like_count", "",
                   <<[text |-> last.how, likes |-> _parse_like_count(last.how).value]>>,
                   _parse_like_count(last.how).raised)
    /\ UNCHANGED <<pacerVars, snapshots, collected_notes, sink>>

\* the capture pass on a page whose one fragment carries the text
LikePass ==
    /\ last.op = "page"
    /\ ExtractPass(LikeFragment(last.how))

NextLikes == ParseLikeCount \/ LikePass

SpecLikes == InitLikes /\ [][NextLikes]_vars

-----------------------------------------------------------------------------
(* Properties *)

\* the URL with the query string stripped
CanonicalLink(url) == SplitFirst(url, "?")

\* the places of the records handed to the sink: <<event, place in its batch>>
Handed == UNION {{<<b, k>> : k \in DOMAIN sink[b]} : b \in DOMAIN sink}

NewCount(how) == Cardinality({i \in DOMAIN how : how[i].why = "new"})

\* C1: within one session every post id is handed to the sink at most once: no
\* two records of the sink, of one batch or of two, share an id or a canonical
\* link, whatever their query strings and other fields; and every id handed
\* over is in the dedup index.
C1_EachPostHandedOnce ==
    /\ \A p \in Handed, q \in Handed :
          p # q => /\ sink[p[1]][p[2]].id # sink[q[1]][q[2]].id
                   /\ CanonicalLink(sink[p[1]][p[2]].url) # CanonicalLink(sink[q[1]][q[2]].url)
    /\ \A p \in Handed : sink[p[1]][p[2]].id \in collected_notes

\* a pass met a fragment whose post was captured under another query string
\* and with other fields, and passed it over
C1_Witness ==
    /\ last.op = "parse_html"
    /\ \E i \in DOMAIN last.how, p \in Handed :
          /\ last.how[i].why = "seen"
          /\ last.how[i].url # sink[p[1]][p[2]].url
          /\ CanonicalLink(last.how[i].url) = CanonicalLink(sink[p[1]][p[2]].url)

\* C2: a capture pass emits one event, holding exactly the new records of the
\* pass, when it produced at least one new record, and emits nothing
\* otherwise; nothing but a capture pass emits.
C2_OneNonEmptyBatchPerPass ==
    [][IF last'.op = "parse_html" /\ NewCount(last'.how) > 0
       THEN /\ Len(sink') = Len(sink) + 1
            /\ sink' = Append(sink, sink'[Len(sink')])
            /\ Len(sink'[Len(sink')]) = NewCount(last'.how)
       ELSE sink' = sink]_vars

\* a pass of several fragments, all of them duplicates, hidden or skipped
C2_Witness ==
    /\ last.op = "parse_html"
    /\ Len(last.how) > 1
    /\ NewCount(last.how) = 0
    /\ \E i \in DOMAIN last.how : last.how[i].why = "seen"
    /\ \E i \in DOMAIN last.how : last.how[i].why = "hidden"
    /\ sink # <<>>

\* C3: stop() on an idle pacer changes nothing, and the scroll step (by the
\* timer or by a retry) runs only on an active pacer: never after stop() and
\* before the next start().
C3_StopIsFinal ==
    [][/\ (last'.op = "stop" /\ ~active) =>
              UNCHANGED <<pacerVars, snapshots, collected_notes, sink>>
       /\ last'.op \in {"tick", "retry"} => active]_vars

\* C4: handling a page report on an idle pacer starts no capture pass and
\* schedules no retry, and leaves the pacer state, the dedup index and the
\* sink as they were.
C4_IdleReportIsNoOp ==
    [][(last'.op = "_handle_scroll" /\ ~active) =>
           UNCHANGED <<active, connections, timer, retries, snapshots,
                       collected_notes, sink>>]_vars

\* the probes that retries issued before this instant and that have not
\* reported back
RetryProbes == {i \in DOMAIN probes : probes[i].byRetry /\ probes[i].age > 0}

C6_CallbackOnceNoRaise ==
    [][last'.op = "_handle_scroll" =>
           /\ snapshots' = snapshots + 1
           /\ last'.report \in {"empty", "null"} =>
                  (last'.raised = "" /\ retries' = retries)]_vars

\* C7: a new-content notification starts exactly one capture pass, raises
\* nothing and leaves the pacer as it was.
C7_NotificationStartsOneCapture ==
    [][last'.op = "capture_trigger" =>
           /\ snapshots' = snapshots + 1
           /\ last'.raised = ""
           /\ UNCHANGED pacerVars]_vars

\* C8: no error leaves a capture pass, and a pass whose page fails to parse
\* leaves the sink, the dedup index and the pacer as they were.
C8_ParseFailureIsCaught ==
    [][last'.op = "parse_html" =>
           /\ last'.raised = ""
           /\ last'.how = <<>> => UNCHANGED <<sink, collected_notes, pacerVars>>]_vars

\* an inline style that hides the element, however it is spaced
HiddenStyle(style) ==
    \/ Contains(Remove(style, " "), <<"display", ":", "none">>)
    \/ Contains(Remove(style, " "), <<"visibility", ":", "hidden">>)

\* the sub-elements of the fragment are each either missing or whole, but for
\* the author's name and the like count, which may be missing inside their
\* wrappers
OptionalPartsMissing(item) == item.cover # << <<>> >>

\* C9: a visible fragment with the post link and an id not in the dedup index
\* yields a record, whichever optional sub-elements are missing: the id is
\* registered and the record is handed over, with "" (0 for likes) for what
\* is missing.
C9_MissingPartsStillYield ==
    [][\A item \in AllFragments :
          (/\ ExtractPass(item)
           /\ ~HiddenStyle(item.style)
           /\ NoteLink(item) # <<>>
           /\ OptionalPartsMissing(item)
           /\ NoteId(urljoin(base_url, NoteLink(item)[1])) \notin collected_notes)
          => /\ NoteId(urljoin(base_url, NoteLink(item)[1])) \in collected_notes'
             /\ Len(sink') = Len(sink) + 1
             /\ LET rec == sink'[Len(sink')][1]
                IN /\ item.title = <<>> => rec.title = ""
                   /\ (item.author = <<>> \/ item.author[1].name = <<>>) => rec.author = ""
                   /\ (item.like = <<>> \/ item.like[1] = <<>>) => rec.likes = 0
                   /\ item.cover = <<>> => rec.cover = ""]_vars

\* C10: a fragment with an inline hidden-display or hidden-visibility style,
\* in any spelling, yields no record and registers no id.
C10_HiddenNeverExtracted ==
    [][\A item \in AllFragments :
          (ExtractPass(item) /\ HiddenStyle(item.style))
          => UNCHANGED <<sink, collected_notes>>]_vars

\* the unsigned decimal numeral a text spells, if it spells one
Number(n) == Decimal(FALSE, SplitFirst(n, "."), AfterDot(n))

\* likes is number * mult rounded to an integer (either way at an exact half)
Rounds(likes, number, mult) ==
    /\ 2 * (likes * Pow10(number.scale) - number.mant * mult) <= Pow10(number.scale)
    /\ 2 * (number.mant * mult - likes * Pow10(number.scale)) <= Pow10(number.scale)

\* the text less its last character
Front(t) == SubSeq(t, 1, Len(t) - 1)

\* what C11 says of the count given for a text, once '+' and outer blanks are off
Normalized(t, likes) ==
    IF t # <<>> /\ t[Len(t)] = "wan" /\ Number(Front(t)).ok
    THEN Rounds(likes, Number(Front(t)), 10000)
    ELSE IF t # <<>> /\ t[Len(t)] = "qian" /\ Number(Front(t)).ok
    THEN Rounds(likes, Number(Front(t)), 1000)
    ELSE IF Number(t).ok THEN Rounds(likes, Number(t), 1)
    ELSE IF Range(t) \cap Digits = {} THEN likes = 0
    ELSE TRUE

\* C11: the count the normalizer returns is, for <number>wan, number * 10000
\* rounded; for <number>qian, number * 1000; for a plain numeral, the
\* numeral's value; and for a text without any digit, 0; a '+' in the text
\* makes no difference.  (That it returns at all is C12's matter.)
C11_LikeCountNormalized ==
    (last.op = "_parse_like_count" /\ last.raised = "") =>
        Normalized(Strip(Remove(last.how[1].text, "+")), last.how[1].likes)

\* C12: the normalizer never raises and never returns a negative count, so
\* the first pass over a visible fragment with the post link, whatever its
\* like text, hands over its record, and every record handed over has
\* likes >= 0.
C12_LikesNeverNegativeNorLost ==
    [][/\ last'.op = "_parse_like_count" =>
              (last'.raised = "" /\ last'.how[1].likes >= 0)
       /\ (last.op = "page" /\ last'.op = "parse_html") =>
              /\ last'.raised = ""
              /\ Len(sink') = Len(sink) + 1
              /\ \A p \in Handed' : sink'[p[1]][p[2]].likes >= 0]_vars

\* C13: at most one scroll probe is outstanding at any time: a regular tick
\* or a loading retry issues its probe only when no earlier probe is still
\* pending, whatever the page keeps reporting.  (That a tick issues one
\* probe, not several, is C14's matter.)
C13_SinglePendingProbe ==
    [][last'.op \in {"tick", "retry"} => probes = <<>>]_vars

\* C14: every timer tick runs the scroll step exactly once, one probe per
\* tick, however many start/stop cycles came before; start() on an active
\* pacer changes nothing.
C14_OneScrollStepPerTick ==
    [][/\ last'.op = "tick" => Len(probes') = Len(probes) + 1
       /\ (last'.op = "start" /\ active) =>
              UNCHANGED <<pacerVars, snapshots, collected_notes, sink>>]_vars

====
